---- MODULE Spec2Model ----
(***************************************************************************)
(* Model of ggen_codegen.py: SimpleTurtleParser.parse_file, the four       *)
(* renderers of NifCodeGenerator and NifCodeGenerator.generate.            *)
(*                                                                         *)
(* Text is modelled at the level of whitespace-separated tokens: a line    *)
(* (after strip()) is a sequence of tokens, a file's content a sequence of *)
(* lines.  The substring tests and regular expressions of the source are   *)
(* evaluated on the tokens of a line.  A rendered document is a sequence   *)
(* of chunks, one per f-string the renderer appends, each holding the      *)
(* values interpolated into it (the generation timestamp is left out).     *)
(* Python dicts are functions whose DOMAIN is the set of keys present;     *)
(* dict objects live in `heap` and lists hold references (indices) to      *)
(* them, so that two list entries can be the same object.                  *)
(***************************************************************************)
EXTENDS Integers, Sequences, FiniteSets, TLC

\* ------------------------------------------------------------------ bounds
MaxLines == 3
MaxSourceLines == 2
MaxFiles == 2
MaxCalls == 2
MaxNifs == 3

\* ------------------------------------------------------------------ tokens
Tok(k, p, s, n) == [k |-> k, p |-> p, s |-> s, n |-> n]
Ref(p, s) == Tok("ref", p, s, 0)
Lit(s) == Tok("lit", "", s, 0)
Num(n) == Tok("num", "", "", n)
Word(s) == Tok("word", "", s, 0)
Hash == Tok("hash", "", "#", 0)
KwA == Tok("word", "", "a", 0)
Semi == Tok("punct", "", ";", 0)
Dot == Tok("punct", "", ".", 0)
AtPrefix == Tok("atprefix", "", "@prefix", 0)
PName(s) == Tok("pname", s, "", 0)
Iri(s) == Tok("iri", "", s, 0)

NifFunctionType == Ref("ex", "NifFunction")

\* str.lower() of a token's text contains 'true': the spellings in use.
TrueSpellings == {"true", "TRUE", "True", "True North"}

NoMatch == [matched |-> FALSE, s |-> "", n |-> 0]
Match(s, n) == [matched |-> TRUE, s |-> s, n |-> n]

Positions(line) == 1..Len(line)

Min(S) == CHOOSE x \in S : \A y \in S : x <= y

\* 'ex:<name>' in line
Contains(line, tok) == \E j \in Positions(line) : line[j] = tok

\* not line or line.startswith('#')
IsSkipped(line) == Len(line) = 0 \/ line[1].k = "hash"

\* ' a ex:NifFunction' in line  (the leading blank needs a token before 'a')
HasDeclaration(line) ==
    \E j \in 2..(Len(line) - 1) : line[j] = KwA /\ line[j + 1] = NifFunctionType

\* re.match(r'ex:(\w+)\s+a ex:NifFunction', line)
MatchDeclaration(line) ==
    IF /\ Len(line) >= 3
       /\ line[1].k = "ref" /\ line[1].p = "ex"
       /\ line[2] = KwA /\ line[3] = NifFunctionType
    THEN Match(line[1].s, 0)
    ELSE NoMatch

\* re.search(r'<pred>\s+"([^"]+)"', line): leftmost predicate followed by a literal
SearchLiteral(line, pred) ==
    LET hits == {j \in 1..(Len(line) - 1) : line[j] = pred /\ line[j + 1].k = "lit"}
    IN  IF hits = {} THEN NoMatch ELSE Match(line[Min(hits) + 1].s, 0)

\* re.search(r'ex:arity\s+(\d+)', line) and int(match.group(1))
SearchArity(line) ==
    LET hits == {j \in 1..(Len(line) - 1) :
                    line[j] = Ref("ex", "arity") /\ line[j + 1].k = "num"}
    IN  IF hits = {} THEN NoMatch ELSE Match("", line[Min(hits) + 1].n)

\* re.search(r'ex:returnType\s+ex:(\w+)', line)
SearchReturnType(line) ==
    LET hits == {j \in 1..(Len(line) - 1) :
                    /\ line[j] = Ref("ex", "returnType")
                    /\ line[j + 1].k = "ref" /\ line[j + 1].p = "ex"}
    IN  IF hits = {} THEN NoMatch ELSE Match(line[Min(hits) + 1].s, 0)

\* 'true' in line.lower()
LowerContainsTrue(line) == \E j \in Positions(line) : line[j].s \in TrueSpellings

\* ------------------------------------------------------------------ dicts
EmptyDict == [x \in {} |-> 0]
Has(d, key) == key \in DOMAIN d
Put(d, key, v) == [x \in (DOMAIN d) \cup {key} |-> IF x = key THEN v ELSE d[x]]
Get(d, key, default) == IF key \in DOMAIN d THEN d[key] ELSE default

\* ------------------------------------------------------------------ parser
\* Extract prefix declarations: the @prefix matches of one line, applied in order
RECURSIVE ScanLinePrefixes(_, _, _)
ScanLinePrefixes(line, j, pfx) ==
    IF j + 3 > Len(line) THEN pfx
    ELSE IF /\ line[j] = AtPrefix /\ line[j + 1].k = "pname"
            /\ line[j + 2].k = "iri" /\ line[j + 3] = Dot
         THEN ScanLinePrefixes(line, j + 4, Put(pfx, line[j + 1].p, line[j + 2].s))
         ELSE ScanLinePrefixes(line, j + 1, pfx)

RECURSIVE ScanPrefixes(_, _, _)
ScanPrefixes(text, l, pfx) ==
    IF l > Len(text) THEN pfx
    ELSE ScanPrefixes(text, l + 1, ScanLinePrefixes(text[l], 1, pfx))

\* current_data = {'id': ..., 'parameters': [], 'examples': []}
NewData(id) == Put(Put(Put(EmptyDict, "id", id), "parameters", <<>>), "examples", <<>>)

SetLabel(d, line) ==
    LET m == SearchLiteral(line, Ref("rdfs", "label"))
    IN  IF m.matched THEN Put(d, "label", m.s) ELSE d

SetDescription(d, line) ==
    LET m == SearchLiteral(line, Ref("rdfs", "comment"))
    IN  IF m.matched THEN Put(d, "description", m.s) ELSE d

SetErlangName(d, line) ==
    LET m == SearchLiteral(line, Ref("ex", "erlangName"))
    IN  IF Contains(line, Ref("ex", "erlangName")) /\ m.matched
        THEN Put(d, "erlangName", m.s) ELSE d

SetRustName(d, line) ==
    LET m == SearchLiteral(line, Ref("ex", "rustName"))
    IN  IF Contains(line, Ref("ex", "rustName")) /\ m.matched
        THEN Put(d, "rustName", m.s) ELSE d

SetArity(d, line) ==
    LET m == SearchArity(line)
    IN  IF Contains(line, Ref("ex", "arity")) /\ m.matched
        THEN Put(d, "arity", m.n) ELSE d

SetCanFail(d, line) ==
    IF Contains(line, Ref("ex", "canFail"))
    THEN Put(d, "canFail", LowerContainsTrue(line)) ELSE d

SetReturnType(d, line) ==
    LET m == SearchReturnType(line)
    IN  IF Contains(line, Ref("ex", "returnType")) /\ m.matched
        THEN Put(d, "returnType", m.s) ELSE d

SetCategory(d, line) ==
    LET m == SearchLiteral(line, Ref("ex", "category"))
    IN  IF Contains(line, Ref("ex", "category")) /\ m.matched
        THEN Put(d, "category", m.s) ELSE d

AppendExample(d, line) ==
    LET m == SearchLiteral(line, Ref("ex", "examples"))
    IN  IF Contains(line, Ref("ex", "examples")) /\ m.matched
        THEN Put(d, "examples", Append(d["examples"], m.s)) ELSE d

\* the property branch of the loop body, applied to the dict current_data refers to
ExtractProperties(d, line) ==
    AppendExample(SetCategory(SetReturnType(SetCanFail(SetArity(SetRustName(
        SetErlangName(SetDescription(SetLabel(d, line), line), line), line), line),
        line), line), line), line)

\* ------------------------------------------------------------------ renderers
\* A renderer's result: the header chunk, then one chunk per f-string appended.
RECURSIVE Concat(_)
Concat(pieces) ==
    IF pieces = <<>> THEN <<>> ELSE Head(pieces) \o Concat(Tail(pieces))

ParamChunk(param) ==
    [kind |-> "param", name |-> Get(param, "name", "arg"), doc |-> Get(param, "doc", "N/A")]

ParamChunks(params) == [j \in 1..Len(params) |-> ParamChunk(params[j])]

NifFunctionChunks(nif) ==
    <<[kind |-> "fn",
       doc |-> Get(nif, "label", Get(nif, "id", "Unknown")),
       description |-> Get(nif, "description", "No description"),
       name |-> Get(nif, "rustName", "nif_unknown"),
       arity |-> Get(nif, "arity", 0),
       todo |-> Get(nif, "label", "this function")]>>
    \o ParamChunks(Get(nif, "parameters", <<>>))
    \o <<[kind |-> "fn_end"]>>

_render_nif_functions(nifs) ==
    <<[kind |-> "rust_header"]>> \o Concat([j \in 1..Len(nifs) |-> NifFunctionChunks(nifs[j])])

TestChunks(nif) ==
    <<[kind |-> "test",
       doc |-> Get(nif, "label", "Unknown"),
       name |-> Get(nif, "rustName", "unknown"),
       todo |-> Get(nif, "label", "Unknown")]>>

_render_tests(nifs) ==
    <<[kind |-> "tests_header"]>>
    \o Concat([j \in 1..Len(nifs) |-> TestChunks(nifs[j])])
    \o <<[kind |-> "tests_end"]>>

\* str.__lt__ compares code points; the code points of the category labels in use
CodePoints(s) ==
    CASE s = "Math" -> <<77, 97, 116, 104>>
      [] s = "Ma" -> <<77, 97>>
      [] s = "Trig" -> <<84, 114, 105, 103>>
      [] s = "Other" -> <<79, 116, 104, 101, 114>>
      [] s = "math" -> <<109, 97, 116, 104>>

RECURSIVE SeqLess(_, _)
SeqLess(a, b) ==
    IF b = <<>> THEN FALSE
    ELSE IF a = <<>> THEN TRUE
    ELSE IF Head(a) # Head(b) THEN Head(a) < Head(b)
    ELSE SeqLess(Tail(a), Tail(b))

StrLess(s, t) == SeqLess(CodePoints(s), CodePoints(t))

\* by_category: an insertion-ordered dict, as a sequence of (category, list) items
RECURSIVE AddToCategory(_, _, _)
AddToCategory(items, cat, nif) ==
    IF items = <<>> THEN <<[category |-> cat, nifs |-> <<nif>>]>>
    ELSE IF Head(items).category = cat
         THEN <<[category |-> cat, nifs |-> Append(Head(items).nifs, nif)]>> \o Tail(items)
         ELSE <<Head(items)>> \o AddToCategory(Tail(items), cat, nif)

RECURSIVE GroupByCategory(_, _)
GroupByCategory(nifs, items) ==
    IF nifs = <<>> THEN items
    ELSE GroupByCategory(Tail(nifs),
             AddToCategory(items, Get(Head(nifs), "category", "Other"), Head(nifs)))

RECURSIVE InsertSorted(_, _)
InsertSorted(item, sorted) ==
    IF sorted = <<>> THEN <<item>>
    ELSE IF StrLess(item.category, Head(sorted).category)
         THEN <<item>> \o sorted
         ELSE <<Head(sorted)>> \o InsertSorted(item, Tail(sorted))

\* mutant: the categories are left in insertion order
ItemsInInsertionOrder(items) == items

\* sorted(by_category.items()): the keys are distinct, so the order is that of the keys
RECURSIVE SortedItems(_)
SortedItems(items) ==
    IF items = <<>> THEN <<>>
    ELSE InsertSorted(Head(items), SortedItems(Tail(items)))

BoolLower(b) == IF b THEN "true" ELSE "false"

DocEntryChunks(nif) ==
    <<[kind |-> "entry",
       heading |-> Get(nif, "label", "Unknown"),
       erlang |-> Get(nif, "erlangName", "unknown"),
       arity |-> Get(nif, "arity", 0),
       rust |-> Get(nif, "rustName", "unknown"),
       description |-> Get(nif, "description", "No description"),
       can_fail |-> BoolLower(Get(nif, "canFail", FALSE)),
       return_type |-> Get(nif, "returnType", "term")]>>

CategoryChunks(item) ==
    <<[kind |-> "category", heading |-> item.category]>>
    \o Concat([j \in 1..Len(item.nifs) |-> DocEntryChunks(item.nifs[j])])

_render_docs(nifs) ==
    <<[kind |-> "docs_header", count |-> Len(nifs)]>>
    \o LET items == SortedItems(GroupByCategory(nifs, <<>>))
       IN  Concat([j \in 1..Len(items) |-> CategoryChunks(items[j])])

ErlangExport(nif) == [name |-> Get(nif, "erlangName", "unknown"), arity |-> Get(nif, "arity", 0)]

ErlangStubChunks(nif) ==
    <<[kind |-> "stub",
       name |-> Get(nif, "erlangName", "unknown"),
       params |-> [j \in 1..Get(nif, "arity", 0) |-> <<"Arg", j - 1>>]]>>

_render_erlang_module(nifs) ==
    <<[kind |-> "erl_header", exports |-> [j \in 1..Len(nifs) |-> ErlangExport(nifs[j])]]>>
    \o Concat([j \in 1..Len(nifs) |-> ErlangStubChunks(nifs[j])])

\* ------------------------------------------------------------------ state
VARIABLES
    prefixes,          \* SimpleTurtleParser.prefixes (self.prefixes)
    ppc,               \* position in parse_file: "idle", "loop", "returned"
    content,           \* parse_file: the lines of the file being parsed
    i,                 \* parse_file: loop index (0-based)
    nif_functions,     \* parse_file: list of references to dicts
    current_resource,  \* parse_file: <<>> for None, <<id>> otherwise
    current_data,      \* parse_file: reference to a dict (0: the initial {})
    ret,               \* parse_file: the returned dict
    heap,              \* the dict objects created by parse_file
    calls,             \* number of parse_file calls made on the parser
    pc,                \* position in generate
    dry_run,           \* generate's argument
    ontology_files,    \* generate: the result of schema_dir.glob('*.ttl')
    k,                 \* generate: index of the file the loading loop is at
    all_nifs,          \* generate: list of references to dicts
    storage,           \* the directories and files under the project root
    code,              \* the value of `code` in each _generate_* call made so far
    result,            \* what generate returned: "none", "True", "False", "raised"
    declared,          \* the resources declared by the texts read so far
    storage_before     \* the storage as it was when generate was called

parserVars == <<prefixes, ppc, content, i, nif_functions, current_resource,
                current_data, ret>>
genVars == <<pc, dry_run, ontology_files, k, all_nifs, storage, code, result, declared,
             storage_before>>
vars == <<prefixes, ppc, content, i, nif_functions, current_resource, current_data,
          ret, heap, calls, pc, dry_run, ontology_files, k, all_nifs, storage, code,
          result, declared, storage_before>>

\* ------------------------------------------------------------------ inputs
DeclAdd == <<Ref("ex", "Add"), KwA, NifFunctionType, Semi>>
DeclForeign == <<Ref("foo", "Sub"), KwA, NifFunctionType, Semi>>
ArityLine == <<Ref("ex", "arity"), Num(2), Semi>>
CanFailTrue == <<Ref("ex", "canFail"), Word("TRUE"), Semi>>
CanFailFalse == <<Ref("ex", "canFail"), Word("false"), Semi>>
CanFailFalseLabelled ==
    <<Ref("ex", "canFail"), Word("false"), Semi, Ref("rdfs", "label"), Lit("True North"), Dot>>
PrefixEx == <<AtPrefix, PName("ex"), Iri("http://example.org/nif#"), Dot>>
CommentLine == <<Hash, Word("math")>>

ParserLines == {DeclAdd, DeclForeign, CanFailTrue, CanFailFalse, CanFailFalseLabelled,
                PrefixEx, CommentLine}
GeneratorLines == {DeclAdd, DeclForeign, ArityLine}

Texts(lines, max) == UNION {[1..n -> lines] : n \in 0..max}

Name(stem) == [stem |-> stem, ext |-> "ttl"]
FileNames == {Name("math"), Name("trig"), Name("nif-core")}

\* 'core' not in onto_file.name
IsCore(name) == name.stem \in {"core", "nif-core"}

Listings ==
    {l \in UNION {[1..n -> FileNames] : n \in 0..MaxFiles} :
        \A a, b \in 1..Len(l) : a # b => l[a] # l[b]}

OutputDir == "src/generated"
DocsDir == "docs/generated"
Artifacts == {"math_nifs.rs", "tests.rs", "generated-math-nifs.md", "math_nifs.erl"}
Stale == <<[kind |-> "stale"]>>
EmptyStorage == [dirs |-> {}, files |-> EmptyDict]
StaleStorage == [dirs |-> {OutputDir, DocsDir}, files |-> [a \in Artifacts |-> Stale]]

\* ------------------------------------------------------------------ parse_file
DataOf(h, ref) == IF ref = 0 THEN EmptyDict ELSE h[ref]
Truthy(d) == DOMAIN d # {}

\* if current_resource and current_data: nif_functions.append(current_data)
AppendCurrent(list, resource, data, h) ==
    IF resource # <<>> /\ Truthy(DataOf(h, data)) THEN Append(list, data) ELSE list

\* open, read, the prefix scan and the initialisation of the locals
ParseOpen(text) ==
    /\ ppc = "idle"
    /\ ppc' = "loop"
    /\ content' = text
    /\ prefixes' = ScanPrefixes(text, 1, prefixes)
    /\ nif_functions' = <<>>
    /\ current_resource' = <<>>
    /\ current_data' = 0
    /\ i' = 0
    /\ ret' = EmptyDict

\* the branch of the loop body taken by a line that holds ' a ex:NifFunction'
DeclarationBranch(line) ==
    LET m == MatchDeclaration(line)
    IN  /\ nif_functions' = AppendCurrent(nif_functions, current_resource, current_data, heap)
        /\ IF m.matched
           THEN /\ current_resource' = <<m.s>>
                /\ heap' = Append(heap, NewData(m.s))
                /\ current_data' = Len(heap) + 1
           ELSE UNCHANGED <<current_resource, heap, current_data>>

\* the branch taken by any other line: properties go to the dict current_data refers to
PropertyBranch(line) ==
    /\ IF current_resource # <<>>
       THEN heap' = [heap EXCEPT ![current_data] = ExtractProperties(@, line)]
       ELSE UNCHANGED heap
    /\ UNCHANGED <<nif_functions, current_resource, current_data>>

\* one iteration of `while i < len(lines)`
ParseLine ==
    /\ ppc = "loop"
    /\ i < Len(content)
    /\ LET line == content[i + 1]
       IN  IF IsSkipped(line)
           THEN UNCHANGED <<nif_functions, current_resource, current_data, heap>>
           ELSE IF HasDeclaration(line)
                THEN DeclarationBranch(line)
                ELSE PropertyBranch(line)
    /\ i' = i + 1
    /\ UNCHANGED <<prefixes, ppc, content, ret, calls>>
    /\ UNCHANGED genVars

\* the end of the loop: add the last resource and return
ParseReturn ==
    /\ ppc = "loop"
    /\ i >= Len(content)
    /\ LET out == AppendCurrent(nif_functions, current_resource, current_data, heap)
       IN  /\ nif_functions' = out
           /\ ret' = [nif_functions |-> out, prefixes |-> prefixes]
    /\ ppc' = "returned"
    /\ UNCHANGED <<prefixes, content, i, current_resource, current_data, heap, calls>>
    /\ UNCHANGED genVars

\* parse_file has returned: its locals and the returned dict are gone
FrameDropped ==
    /\ ppc' = "idle"
    /\ content' = <<>>
    /\ i' = 0
    /\ nif_functions' = <<>>
    /\ current_resource' = <<>>
    /\ current_data' = 0
    /\ ret' = EmptyDict

\* ------------------------------------------------------------------ parser alone
\* NifCodeGenerator.__init__ has run: a fresh parser, generate not yet called
GenIdle ==
    /\ pc = "idle"
    /\ dry_run = FALSE
    /\ ontology_files = <<>>
    /\ k = 0
    /\ all_nifs = <<>>
    /\ storage = EmptyStorage
    /\ code = EmptyDict
    /\ result = "none"
    /\ declared = <<>>
    /\ storage_before = EmptyStorage

ParserInit ==
    /\ prefixes = EmptyDict
    /\ ppc = "idle"
    /\ content = <<>>
    /\ i = 0
    /\ nif_functions = <<>>
    /\ current_resource = <<>>
    /\ current_data = 0
    /\ ret = EmptyDict
    /\ heap = <<>>
    /\ calls = 0

InitParser == ParserInit /\ GenIdle

\* a caller parses one more file with the same parser; earlier results are dropped
Call ==
    /\ calls < MaxCalls
    /\ \E text \in Texts(ParserLines, MaxLines) : ParseOpen(text)
    /\ heap' = <<>>
    /\ calls' = calls + 1
    /\ UNCHANGED genVars

\* the caller takes the returned dict
Collect ==
    /\ ppc = "returned"
    /\ FrameDropped
    /\ UNCHANGED <<prefixes, heap, calls>>
    /\ UNCHANGED genVars

NextParser == Call \/ ParseLine \/ ParseReturn \/ Collect

SpecParser == InitParser /\ [][NextParser]_vars

\* ------------------------------------------------------------------ parser claims
Records(h, refs) == [j \in 1..Len(refs) |-> h[refs[j]]]

\* the lines of a text that parse_file detects as declarations
DetectedDeclarations(text) ==
    {l \in 1..Len(text) : ~IsSkipped(text[l]) /\ HasDeclaration(text[l])}

\* C5: what parse_file returns depends on the text alone: the returned prefix
\* mapping is the one the text declares, whatever the parser parsed before.
C5_PrefixesFromTextOnly ==
    ppc = "returned" => ret.prefixes = ScanPrefixes(content, 1, EmptyDict)

\* the token that follows the can-fail predicate on a line
CanFailValue(line) ==
    line[Min({j \in Positions(line) : line[j] = Ref("ex", "canFail")}) + 1]

CanFailStep ==
    /\ ppc = "loop" /\ i < Len(content)
    /\ ~IsSkipped(content[i + 1]) /\ ~HasDeclaration(content[i + 1])
    /\ current_resource # <<>>
    /\ Contains(content[i + 1], Ref("ex", "canFail"))

\* C7: a can-fail line sets the open draft's canFail to true exactly when the
\* value given for the can-fail predicate is a spelling of "true".
C7_CanFailFromValue ==
    [][CanFailStep =>
        heap'[current_data]["canFail"] = (CanFailValue(content[i + 1]).s \in TrueSpellings)]_vars

\* C9: when parse_file returns, the output holds one record per detected
\* declaration line and every draft created has been appended exactly once,
\* in the order of creation.
C9_OneRecordPerDeclaration ==
    ppc = "returned" =>
        /\ Len(ret.nif_functions) = Cardinality(DetectedDeclarations(content))
        /\ ret.nif_functions = [j \in 1..Len(heap) |-> j]

\* C10: a record that is already in the output sequence is not changed by any
\* later line of the input.
C10_AppendedRecordsFrozen ==
    [][ppc = "loop" /\ ppc' # "idle" =>
        \A j \in 1..Len(nif_functions) : heap'[nif_functions[j]] = heap[nif_functions[j]]]_vars

\* ------------------------------------------------------------------ generate
\* the resources a text declares, each with the properties of the lines that follow
\* its declaration line up to the next declaration line
DeclaredSubject(line) ==
    line[Min({j \in 2..(Len(line) - 1) : line[j] = KwA /\ line[j + 1] = NifFunctionType}) - 1].s

RECURSIVE DeclaredRecords(_, _, _)
DeclaredRecords(text, l, recs) ==
    IF l > Len(text) THEN recs
    ELSE LET line == text[l]
         IN  IF IsSkipped(line) THEN DeclaredRecords(text, l + 1, recs)
             ELSE IF HasDeclaration(line)
                  THEN DeclaredRecords(text, l + 1, Append(recs, NewData(DeclaredSubject(line))))
                  ELSE IF recs = <<>> THEN DeclaredRecords(text, l + 1, recs)
                       ELSE DeclaredRecords(text, l + 1,
                                [recs EXCEPT ![Len(recs)] = ExtractProperties(@, line)])

\* if not ontology_files
NoOntologyFiles(files) == Len(files) = 0

\* mutant: the check for no NIF functions never fires
NoNifsLoaded_Never(nifs) == FALSE

\* if not all_nifs
NoNifsLoaded(nifs) == Len(nifs) = 0

\* Path.write_text
WriteText(st, artifact, text) == [st EXCEPT !.files = Put(@, artifact, text)]

\* a write_text that raises leaves the file as it was or truncated
FailedWrite(st, artifact) == {st, WriteText(st, artifact, <<>>)}

Raise ==
    /\ pc' = "raised"
    /\ result' = "raised"

Init ==
    /\ ParserInit
    /\ pc = "start"
    /\ dry_run \in BOOLEAN
    /\ ontology_files = <<>>
    /\ k = 0
    /\ all_nifs = <<>>
    /\ storage \in {EmptyStorage, StaleStorage}
    /\ code = EmptyDict
    /\ result = "none"
    /\ declared = <<>>
    /\ storage_before = storage

\* ontology_files = list(glob('*.ttl')) and the check for no files
GenerateGlob ==
    /\ pc = "start"
    /\ \E listing \in Listings :
        /\ ontology_files' = listing
        /\ IF NoOntologyFiles(listing)
           THEN /\ pc' = "done"
                /\ result' = "False"
                /\ k' = k
           ELSE /\ pc' = "load"
                /\ result' = result
                /\ k' = 1
    /\ UNCHANGED <<dry_run, all_nifs, storage, code, declared, storage_before>>
    /\ UNCHANGED <<parserVars, heap, calls>>

\* the loop over ontology_files: a core file is skipped
GenerateSkipCore ==
    /\ pc = "load"
    /\ k <= Len(ontology_files)
    /\ IsCore(ontology_files[k])
    /\ k' = k + 1
    /\ UNCHANGED <<pc, dry_run, ontology_files, all_nifs, storage, code, result, declared,
                   storage_before>>
    /\ UNCHANGED <<parserVars, heap, calls>>

\* the loop over ontology_files: self.parser.parse_file is called on the file
GenerateParse ==
    /\ pc = "load"
    /\ k <= Len(ontology_files)
    /\ ~IsCore(ontology_files[k])
    /\ \E text \in Texts(GeneratorLines, MaxSourceLines) : ParseOpen(text)
    /\ calls' = calls + 1
    /\ UNCHANGED heap
    /\ UNCHANGED genVars

\* all_nifs.extend(data['nif_functions'])
GenerateExtend ==
    /\ pc = "load"
    /\ ppc = "returned"
    /\ FrameDropped
    /\ all_nifs' = all_nifs \o ret.nif_functions
    /\ declared' = declared \o DeclaredRecords(content, 1, <<>>)
    /\ k' = k + 1
    /\ UNCHANGED <<pc, dry_run, ontology_files, storage, code, result, storage_before>>
    /\ UNCHANGED <<prefixes, heap, calls>>

\* the check for no NIF functions after the loop
GenerateCheck ==
    /\ pc = "load"
    /\ ppc = "idle"
    /\ k > Len(ontology_files)
    /\ IF NoNifsLoaded(all_nifs)
       THEN /\ pc' = "done"
            /\ result' = "False"
       ELSE /\ pc' = "mkdir"
            /\ result' = result
    /\ UNCHANGED <<dry_run, ontology_files, k, all_nifs, storage, code, declared,
                   storage_before>>
    /\ UNCHANGED <<parserVars, heap, calls>>

\* Create output directories
GenerateMkdir ==
    /\ pc = "mkdir"
    /\ IF dry_run
       THEN /\ pc' = "nif"
            /\ UNCHANGED <<storage, result>>
       ELSE \/ /\ storage' = [storage EXCEPT !.dirs = @ \cup {OutputDir, DocsDir}]
               /\ pc' = "nif"
               /\ result' = result
            \/ /\ storage' = storage
               /\ Raise
            \/ /\ storage' = [storage EXCEPT !.dirs = @ \cup {OutputDir}]
               /\ Raise
    /\ UNCHANGED <<dry_run, ontology_files, k, all_nifs, code, declared, storage_before>>
    /\ UNCHANGED <<parserVars, heap, calls>>

\* the body shared by the four _generate_* methods
Persist(artifact, text, next) ==
    /\ code' = Put(code, artifact, text)
    /\ IF dry_run
       THEN /\ pc' = next
            /\ UNCHANGED <<storage, result>>
       ELSE \/ /\ storage' = WriteText(storage, artifact, text)
               /\ pc' = next
               /\ result' = result
            \/ /\ storage' \in FailedWrite(storage, artifact)
               /\ Raise
    /\ UNCHANGED <<dry_run, ontology_files, k, all_nifs, declared, storage_before>>
    /\ UNCHANGED <<parserVars, heap, calls>>

_generate_nif_module ==
    /\ pc = "nif"
    /\ Persist("math_nifs.rs", _render_nif_functions(Records(heap, all_nifs)), "tests")

\* mutant: the test file is written whether or not dry_run is set
_generate_tests_ignoring_dry_run ==
    /\ pc = "tests"
    /\ code' = Put(code, "tests.rs", _render_tests(Records(heap, all_nifs)))
    /\ storage' = WriteText(storage, "tests.rs", _render_tests(Records(heap, all_nifs)))
    /\ pc' = "docs"
    /\ UNCHANGED <<dry_run, ontology_files, k, all_nifs, declared, storage_before, result>>
    /\ UNCHANGED <<parserVars, heap, calls>>

_generate_tests ==
    /\ pc = "tests"
    /\ Persist("tests.rs", _render_tests(Records(heap, all_nifs)), "docs")

\* mutant: a failed write of the documentation is swallowed and the run goes on
_generate_docs_swallowing_failure ==
    /\ pc = "docs"
    /\ code' = Put(code, "generated-math-nifs.md", _render_docs(Records(heap, all_nifs)))
    /\ pc' = "erlang"
    /\ IF dry_run
       THEN storage' = storage
       ELSE \/ storage' = WriteText(storage, "generated-math-nifs.md",
                                    _render_docs(Records(heap, all_nifs)))
            \/ storage' \in FailedWrite(storage, "generated-math-nifs.md")
    /\ UNCHANGED <<dry_run, ontology_files, k, all_nifs, declared, storage_before, result>>
    /\ UNCHANGED <<parserVars, heap, calls>>

_generate_docs ==
    /\ pc = "docs"
    /\ Persist("generated-math-nifs.md", _render_docs(Records(heap, all_nifs)), "erlang")

_generate_erlang_module ==
    /\ pc = "erlang"
    /\ Persist("math_nifs.erl", _render_erlang_module(Records(heap, all_nifs)), "return")

\* return True
GenerateReturn ==
    /\ pc = "return"
    /\ pc' = "done"
    /\ result' = "True"
    /\ UNCHANGED <<dry_run, ontology_files, k, all_nifs, storage, code, declared,
                   storage_before>>
    /\ UNCHANGED <<parserVars, heap, calls>>

Next ==
    \/ GenerateGlob
    \/ GenerateSkipCore
    \/ GenerateParse
    \/ ParseLine
    \/ ParseReturn
    \/ GenerateExtend
    \/ GenerateCheck
    \/ GenerateMkdir
    \/ _generate_nif_module
    \/ _generate_tests
    \/ _generate_docs
    \/ _generate_erlang_module
    \/ GenerateReturn

Spec == Init /\ [][Next]_vars

\* ------------------------------------------------------------------ generate claims
ArtifactOrder == <<"math_nifs.rs", "tests.rs", "generated-math-nifs.md", "math_nifs.erl">>

\* C1: the function stubs, the test stubs and the host-module stub (exports and
\* stub definitions) render the declared resources, in the order the sources
\* were read and the lines appear, none dropped, repeated or reordered.
C1_RenderedInDeclarationOrder ==
    /\ Has(code, "math_nifs.rs") => code["math_nifs.rs"] = _render_nif_functions(declared)
    /\ Has(code, "tests.rs") => code["tests.rs"] = _render_tests(declared)
    /\ Has(code, "math_nifs.erl") => code["math_nifs.erl"] = _render_erlang_module(declared)

\* C2: as long as no record has been loaded, storage is as it was before the run
\* and no renderer has run; a run that ends with no record returns False.
C2_EmptyRunFailsWithoutWrites ==
    all_nifs = <<>> =>
        /\ storage = storage_before
        /\ code = EmptyDict
        /\ pc \in {"start", "load", "done"}
        /\ pc = "done" => result = "False"

C2_Witness ==
    /\ pc = "done" /\ result = "False" /\ ~dry_run
    /\ calls > 0
    /\ \E j \in 1..Len(ontology_files) : IsCore(ontology_files[j])
    /\ storage_before = StaleStorage

\* C3: in a dry run storage stays as it was before the run, and a run that
\* loaded a record ends with all four renderers invoked and returns True.
C3_DryRunLeavesStorage ==
    dry_run =>
        /\ storage = storage_before
        /\ pc # "raised"
        /\ (pc = "done" /\ all_nifs # <<>>) =>
              /\ result = "True"
              /\ DOMAIN code = Artifacts
              /\ code["math_nifs.rs"] = _render_nif_functions(Records(heap, all_nifs))
              /\ code["math_nifs.erl"] = _render_erlang_module(Records(heap, all_nifs))

C3_Witness ==
    /\ dry_run /\ pc = "done" /\ result = "True"
    /\ storage_before = EmptyStorage
    /\ DOMAIN code = Artifacts

\* the artifacts whose write_text has returned
Written ==
    IF dry_run \/ code = EmptyDict THEN {}
    ELSE LET n == Cardinality(DOMAIN code)
             done == IF pc = "raised" THEN n - 1 ELSE n
         IN  {ArtifactOrder[j] : j \in 1..done}

\* C8: generate returns True only after a record was loaded and, with writes
\* enabled, all four artifacts were written; after a failed write it does not
\* return True, and what was written before the failure is still there.
C8_SuccessMeansAllWritten ==
    /\ result = "True" =>
          /\ all_nifs # <<>>
          /\ ~dry_run => Written = Artifacts
    /\ pc = "raised" => result = "raised"
    /\ \A a \in Written : Has(storage.files, a) /\ storage.files[a] = code[a]

C8_Witness ==
    /\ pc = "raised" /\ result = "raised"
    /\ Written = {"math_nifs.rs", "tests.rs"}
    /\ storage_before = StaleStorage
    /\ storage.files["generated-math-nifs.md"] = <<>>

\* ------------------------------------------------------------------ renderers alone
WithCategory(d, cat) == IF cat = "" THEN d ELSE Put(d, "category", cat)

\* records as parse_file builds them: with or without a label and a category
RenderRecords ==
    {WithCategory(d, cat) :
        d \in {NewData("Add"), Put(NewData("Sin"), "label", "Sine")},
        cat \in {"", "Math", "Ma", "Trig", "Other", "math"}}

RecordLists == UNION {[1..n -> RenderRecords] : n \in 0..MaxNifs}

InitRender ==
    /\ prefixes = EmptyDict
    /\ ppc = "idle"
    /\ content = <<>>
    /\ i = 0
    /\ nif_functions = <<>>
    /\ current_resource = <<>>
    /\ current_data = 0
    /\ ret = EmptyDict
    /\ calls = 0
    /\ pc = "idle"
    /\ dry_run = FALSE
    /\ ontology_files = <<>>
    /\ k = 0
    /\ storage = EmptyStorage
    /\ code = EmptyDict
    /\ result = "none"
    /\ declared = <<>>
    /\ storage_before = EmptyStorage
    /\ heap \in RecordLists
    /\ all_nifs = [j \in 1..Len(heap) |-> j]

\* a caller applies a renderer to the record list and keeps the result
Rendered(artifact, text, before) ==
    /\ DOMAIN code = before
    /\ code' = Put(code, artifact, text)
    /\ UNCHANGED <<pc, dry_run, ontology_files, k, all_nifs, storage, result, declared,
                   storage_before>>
    /\ UNCHANGED <<parserVars, heap, calls>>

RenderNifFunctions ==
    /\ pc = "idle"
    /\ Rendered("math_nifs.rs", _render_nif_functions(Records(heap, all_nifs)), {})

RenderTests ==
    /\ pc = "idle"
    /\ Rendered("tests.rs", _render_tests(Records(heap, all_nifs)), {"math_nifs.rs"})

RenderDocs ==
    /\ pc = "idle"
    /\ Rendered("generated-math-nifs.md", _render_docs(Records(heap, all_nifs)),
                {"math_nifs.rs", "tests.rs"})

RenderErlangModule ==
    /\ pc = "idle"
    /\ Rendered("math_nifs.erl", _render_erlang_module(Records(heap, all_nifs)),
                {"math_nifs.rs", "tests.rs", "generated-math-nifs.md"})

NextRender == RenderNifFunctions \/ RenderTests \/ RenderDocs \/ RenderErlangModule

SpecRender == InitRender /\ [][NextRender]_vars

\* ------------------------------------------------------------------ renderer claims
Docs == code["generated-math-nifs.md"]
Nifs == Records(heap, all_nifs)
CategoryOf(nif) == IF Has(nif, "category") THEN nif["category"] ELSE "Other"
HeadingPositions == {p \in 1..Len(Docs) : Docs[p].kind = "category"}
SectionEnd(p) == Min({q \in HeadingPositions : q > p} \cup {Len(Docs) + 1}) - 1
InCategory(cat) == SelectSeq(Nifs, LAMBDA nif : CategoryOf(nif) = cat)

\* C4: the documentation has one heading per distinct category ("Other" for
\* records without one), the headings are in increasing code-point order, and
\* under each heading come the records of that category in their input order.
C4_DocsGroupedAndSorted ==
    Has(code, "generated-math-nifs.md") =>
        /\ \A j \in 1..Len(Nifs) :
              Cardinality({p \in HeadingPositions : Docs[p].heading = CategoryOf(Nifs[j])}) = 1
        /\ \A p \in HeadingPositions :
              \E j \in 1..Len(Nifs) : CategoryOf(Nifs[j]) = Docs[p].heading
        /\ \A p, q \in HeadingPositions :
              p < q => StrLess(Docs[p].heading, Docs[q].heading)
        /\ \A p \in HeadingPositions :
              SubSeq(Docs, p + 1, SectionEnd(p))
                  = LET members == InCategory(Docs[p].heading)
                    IN  Concat([j \in 1..Len(members) |-> DocEntryChunks(members[j])])

C4_Witness ==
    /\ Has(code, "generated-math-nifs.md")
    /\ Len(Nifs) = 3
    /\ Nifs[1] = Put(NewData("Add"), "category", "Trig")
    /\ Nifs[2] = Put(NewData("Sin"), "label", "Sine")
    /\ Nifs[3] = Put(NewData("Add"), "category", "Other")
    /\ [p \in 1..Len(Docs) |-> Docs[p].kind] = <<"docs_header", "category", "entry", "entry", "category", "entry">>
    /\ Docs[2].heading = "Other" /\ Docs[3].heading = "Sine" /\ Docs[5].heading = "Trig"

\* a record whose label, when absent, has been set to its id
LabelDefaulted(nif) == IF Has(nif, "label") THEN nif ELSE Put(nif, "label", nif["id"])
Defaulted == [j \in 1..Len(Nifs) |-> LabelDefaulted(Nifs[j])]

\* C6: every place where a renderer prints a record's label shows the id of a
\* record that has no label.
C6_LabelDefaultsToId ==
    /\ Has(code, "math_nifs.rs") => code["math_nifs.rs"] = _render_nif_functions(Defaulted)
    /\ Has(code, "tests.rs") => code["tests.rs"] = _render_tests(Defaulted)
    /\ Has(code, "generated-math-nifs.md") => Docs = _render_docs(Defaulted)

====
